---- MODULE Spec2Model ----
(***************************************************************************)
(* envconfig: the secret-resolution cache (package awsclient) and the      *)
(* two-pass placeholder substitution of processTemplateFile (main.go).     *)
(*                                                                         *)
(* Text is modelled as sequences of one-character strings, so that the     *)
(* regular expressions of the program are matched character by character.  *)
(***************************************************************************)
EXTENDS Integers, Sequences, FiniteSets, TLC

\* Characters and character classes of the regular expressions.
Lower ==
  {"a", "b", "c", "d", "e", "f", "g", "h", "i", "j", "k", "l", "m", "n", "o",
   "p", "q", "r", "s", "t", "u", "v", "w", "x", "y", "z"}

Upper ==
  {"A", "B", "C", "D", "E", "F", "G", "H", "I", "J", "K", "L", "M", "N", "O",
   "P", "Q", "R", "S", "T", "U", "V", "W", "X", "Y", "Z"}

Digit ==
  {"0", "1", "2", "3", "4", "5", "6", "7", "8", "9"}

\* \w
WordChars == Lower \cup Upper \cup Digit \cup {"_"}

\* \s
SpaceChars == {" ", "\t", "\n", "\f", "\r"}

\* [#\/*] of commentRegex
CommentChars == {"#", "/", "*"}

\* [A-Za-z_{] and [A-Za-z0-9_] of envVarRegex
EnvFirstChars == Lower \cup Upper \cup {"_", "{"}

EnvRestChars == WordChars

\* [\w/:+_=.@-] of placeholderRegex
IdentChars == WordChars \cup {"/", ":", "+", "=", ".", "@", "-"}

\* [\w/_+=.@-] of arnRegex and [\w/+=.@-] of nameRegex
NameChars == WordChars \cup {"/", "+", "=", ".", "@", "-"}

\* [A-Za-z0-9] of nameRestrictionRegex
AlnumChars == Lower \cup Upper \cup Digit

\* Helpers over character sequences.
\* The character at position i, or "" (member of no class) outside the text.
At(s, i) == IF i \in 1..Len(s) THEN s[i] ELSE ""

\* The first position >= p whose character is not in class C (Len(s)+1 at
\* the end of the text): where a greedy repetition of C started at p stops.
RunEnd(s, p, C) ==
  CHOOSE j \in p..(Len(s) + 1) :
    /\ At(s, j) \notin C
    /\ \A k \in p..(j - 1) : At(s, k) \in C

\* Whether text s holds the literal lit at position p.
HasAt(s, p, lit) ==
  /\ p >= 1
  /\ p + Len(lit) - 1 <= Len(s)
  /\ \A k \in 1..Len(lit) : s[p + k - 1] = lit[k]

Min2(a, b) == IF a <= b THEN a ELSE b

\* A regular-expression match: the half-open span [start, end) of the whole
\* match, capture group 1 (name) and capture group 3 (key).  end = 0 stands
\* for "no match".
NoMatch == [start |-> 0, end |-> 0, name |-> <<>>, key |-> <<>>]

\* A mutant of commentRegex: the leading white space is not skipped.
commentRegex_noLeadingSpace(line) == At(line, 1) \in CommentChars

\* main.go: commentRegex = ^\s*[#\/*]
commentRegex(line) == At(line, RunEnd(line, 1, SpaceChars)) \in CommentChars

\* main.go: envVarRegex = {?\${?([A-Za-z_{][A-Za-z0-9_]*)}?
\* The match that starts at position i, by the leftmost-first rules of
\* Go's regexp: each optional brace is taken when the rest still matches.
envVarMatchAt(s, i) ==
  LET dollar == IF At(s, i) = "{" /\ At(s, i + 1) = "$" THEN i + 1 ELSE i
      g      == dollar + 1
      first  == IF At(s, g) = "{" /\ At(s, g + 1) \in EnvFirstChars THEN g + 1
                ELSE IF At(s, g) \in EnvFirstChars THEN g
                ELSE 0
      stop   == RunEnd(s, first + 1, EnvRestChars)
      end    == IF At(s, stop) = "}" THEN stop + 1 ELSE stop
  IN IF At(s, dollar) = "$" /\ first # 0
       THEN [start |-> i, end |-> end,
             name |-> SubSeq(s, first, stop - 1), key |-> <<>>]
       ELSE NoMatch

\* main.go: placeholderRegex = \{\{?([\w/:+_=.@-]+)(\[([\w]+)\])?\}?\}
placeholderMatchAt(s, i) ==
  LET a       == IF At(s, i + 1) = "{" THEN i + 2 ELSE i + 1
      b       == RunEnd(s, a, IdentChars)
      c       == RunEnd(s, b + 1, WordChars)
      hasKey  == At(s, b) = "[" /\ c > b + 1 /\ At(s, c) = "]"
      p       == IF hasKey THEN c + 1 ELSE b
      end     == IF At(s, p) = "}" /\ At(s, p + 1) = "}" THEN p + 2 ELSE p + 1
  IN IF At(s, i) = "{" /\ b > a /\ At(s, p) = "}"
       THEN [start |-> i, end |-> end,
             name |-> SubSeq(s, a, b - 1),
             key  |-> IF hasKey THEN SubSeq(s, b + 1, c - 1) ELSE <<>>]
       ELSE NoMatch

\* regexp.ReplaceAllStringFunc scans the source text left to right for
\* successive non-overlapping matches; the replacements never feed back
\* into the scan.  FindAll gives the matches in the order of the calls of
\* the replacement function.
RECURSIVE envVarFindAll(_, _)
envVarFindAll(s, i) ==
  IF i > Len(s) THEN <<>>
  ELSE LET m == envVarMatchAt(s, i)
       IN IF m.end = 0 THEN envVarFindAll(s, i + 1)
          ELSE <<m>> \o envVarFindAll(s, m.end)

RECURSIVE placeholderFindAll(_, _)
placeholderFindAll(s, i) ==
  IF i > Len(s) THEN <<>>
  ELSE LET m == placeholderMatchAt(s, i)
       IN IF m.end = 0 THEN placeholderFindAll(s, i + 1)
          ELSE <<m>> \o placeholderFindAll(s, m.end)

\* The text of a match: matches[0].
MatchText(s, m) == SubSeq(s, m.start, m.end - 1)

\* awsclient: the identifier classifier.
ArnPrefix ==
  <<"a", "r", "n", ":", "a", "w", "s", ":", "s", "e", "c", "r", "e", "t", "s",
    "m", "a", "n", "a", "g", "e", "r", ":">>

ServicePrefix ==
  <<"s", "e", "c", "r", "e", "t", "s", "m", "a", "n", "a", "g", "e", "r", ":">>

SecretInfix == <<":", "s", "e", "c", "r", "e", "t", ":">>

\* [a-z]{2}-[a-z]+-\d{1,3} at position p: the position after the region
\* code, or 0 when there is none.
RegionEnd(s, p) ==
  LET q == RunEnd(s, p + 3, Lower)
      r == RunEnd(s, q + 1, Digit)
  IN IF /\ At(s, p) \in Lower
        /\ At(s, p + 1) \in Lower
        /\ At(s, p + 2) = "-"
        /\ q > p + 3
        /\ At(s, q) = "-"
        /\ r > q + 1
       THEN q + 1 + Min2(r - (q + 1), 3)
       ELSE 0

\* arnRegex = ^(arn:aws:secretsmanager:[a-z]{2}-[a-z]+-\d{1,3}:\d{12}:secret:[\w/_+=.@-]+)$
arnRegex(s) ==
  LET p == Len(ArnPrefix) + 1
      e == RegionEnd(s, p)
      n == e + 1 + 12 + Len(SecretInfix)
  IN /\ HasAt(s, 1, ArnPrefix)
     /\ e # 0
     /\ At(s, e) = ":"
     /\ RunEnd(s, e + 1, Digit) = e + 1 + 12
     /\ HasAt(s, e + 1 + 12, SecretInfix)
     /\ n <= Len(s)
     /\ RunEnd(s, n, NameChars) = Len(s) + 1

\* nameRegex = ^([\w/+=.@-]{1,512})$
nameRegex(s) ==
  /\ Len(s) >= 1
  /\ Len(s) <= 512
  /\ RunEnd(s, 1, NameChars) = Len(s) + 1

\* nameRestrictionRegex = -[A-Za-z0-9]{6}$
nameRestrictionRegex(s) ==
  /\ Len(s) >= 7
  /\ s[Len(s) - 6] = "-"
  /\ \A k \in (Len(s) - 5)..Len(s) : s[k] \in AlnumChars

\* A mutant of isValidSecretIdentifier: the reserved-suffix restriction is
\* applied to ARNs as well as to names.
isValidSecretIdentifier_restrictsArn(identifier) ==
  IF identifier = <<>> THEN FALSE
  ELSE (arnRegex(identifier) \/ nameRegex(identifier))
         /\ ~nameRestrictionRegex(identifier)

isValidSecretIdentifier(identifier) ==
  IF identifier = <<>> THEN FALSE
  ELSE arnRegex(identifier)
         \/ (nameRegex(identifier) /\ ~nameRestrictionRegex(identifier))

\* regionRegex = (?:secretsmanager:)([a-z]{2}-[a-z]+-\d{1,3}), unanchored:
\* the leftmost position where the prefix is followed by a region code.
regionRegexMatch(s) ==
  LET hits == {i \in 1..Len(s) :
                 HasAt(s, i, ServicePrefix)
                   /\ RegionEnd(s, i + Len(ServicePrefix)) # 0}
  IN IF hits = {} THEN NoMatch
     ELSE LET i == CHOOSE h \in hits : \A k \in hits : h <= k
              p == i + Len(ServicePrefix)
          IN [start |-> i, end |-> RegionEnd(s, p),
              name |-> SubSeq(s, p, RegionEnd(s, p) - 1), key |-> <<>>]

\* A mutant of getRegionFromIdentifier: the client's default region is
\* used for every identifier.
getRegionFromIdentifier_alwaysDefault(identifier, region) == region

getRegionFromIdentifier(identifier, defaultRegion) ==
  LET matches == regionRegexMatch(identifier)
  IN IF matches.end # 0 THEN matches.name ELSE defaultRegion

\* ------------------------------------------------------------------------
\* Bounds of the model and the inputs drawn in the initial states.
\* ------------------------------------------------------------------------
\* The longest input file, in lines.
MaxLines == 2

\* The most GetSecret calls one concurrent caller makes on the shared client.
MaxCalls == 2

\* The longest tail of an identifier handed to the classifier alone.
MaxTail == 8

\* The goroutine of main.go and the concurrent callers of a shared client.
Main == "main"

Callers == {"c1", "c2"}

Threads == {Main} \cup Callers

\* Identifiers: two bare names, an ARN whose name part ends in the reserved
\* suffix shape, and a bare name that ends in that shape (invalid).
IdA == <<"a">>

IdU == <<"U">>

IdArn ==
  <<"a", "r", "n", ":", "a", "w", "s", ":", "s", "e", "c", "r", "e", "t", "s",
    "m", "a", "n", "a", "g", "e", "r", ":", "u", "s", "-", "e", "a", "s", "t",
    "-", "1", ":", "1", "2", "3", "4", "5", "6", "7", "8", "9", "0", "1", "2",
    ":", "s", "e", "c", "r", "e", "t", ":", "d", "-", "A", "b", "C", "1", "2",
    "3">>

IdBad == <<"d", "-", "A", "b", "C", "1", "2", "3">>

CallerIds == {IdA, IdArn, IdBad}

\* Identifiers for the classifier alone: a stem (nothing, a bare name, an
\* ARN up to the first character of its name part) followed by every tail
\* of hyphens, letters and underscores up to MaxTail characters.
ArnStem == SubSeq(IdArn, 1, Len(IdArn) - 7)

IdentifierStems == {<<>>, <<"d">>, ArnStem}

TailChars == {"-", "b", "_"}

IdentifierTails == UNION {[1..n -> TailChars] : n \in 0..MaxTail}

Identifiers == {stem \o tail : stem \in IdentifierStems, tail \in IdentifierTails}

\* The -profile and -region flags of main.go (their defaults: "default", "").
Profile == <<"d", "e", "f", "a", "u", "l", "t">>

RegionEuWest == <<"e", "u", "-", "w", "e", "s", "t", "-", "1">>

DefaultRegions == {<<>>, RegionEuWest}

\* ------------------------------------------------------------------------
\* Values of the program: errors, cache items, provider results.
\* ------------------------------------------------------------------------
\* An error value: its kind (the message format), the text formatted into
\* the message, and the wrapped error, if any (a sequence of length 0 or 1).
Nil == [kind |-> "nil", ref |-> <<>>, cause |-> <<>>]

Err(kind, ref, cause) ==
  [kind |-> kind, ref |-> ref,
   cause |-> IF cause = Nil THEN <<>> ELSE <<cause>>]

\* Errors of the AWS SDK, as the provider returns them.
SessionErrors == {Err("SharedConfigProfileNotExistsError", <<>>, Nil)}

CredentialErrors == {Err("NoCredentialProviders", <<>>, Nil)}

FetchErrors ==
  {Err("ResourceNotFoundException", <<>>, Nil),
   Err("AccessDeniedException", <<>>, Nil)}

\* *session.Session and *secretsmanager.SecretsManager: nil, or an object
\* bound to a region.
NilPtr == [kind |-> "nil", region |-> <<>>]

SessionFor(region) == [kind |-> "session", region |-> region]

\* secretsmanager.New(session)
ServiceFor(session) == [kind |-> "service", region |-> session.region]

\* CacheItem[T]
CacheItem(item, err) == [item |-> item, err |-> err]

\* Texts a secret may hold: a plain text, a flat JSON object, the empty
\* text, and a text of the shape of an environment placeholder and of a
\* secret placeholder.
PayloadPlain == <<"s">>

PayloadShaped == <<"$", "{", "V", "}">>

PayloadJson == <<"{", "\"", "k", "\"", ":", "\"", "v", "\"", "}">>

Payloads == {PayloadPlain, PayloadJson, PayloadShaped, <<>>}

\* What service.GetSecretValue returns: (result, err), where result is never
\* nil and result.SecretString is nil (hasText = FALSE) or points to a text.
FetchResult(hasText, text, err) ==
  [hasText |-> hasText, text |-> text, err |-> err]

FetchOutcomes ==
  {FetchResult(TRUE, p, Nil) : p \in Payloads}
    \cup {FetchResult(FALSE, <<>>, Nil)}
    \cup {FetchResult(FALSE, <<>>, e) : e \in FetchErrors}

\* What session.NewSessionWithOptions returns: (session, nil) or (nil, err).
SessionOutcomes(region) ==
  {CacheItem(SessionFor(region), Nil)}
    \cup {CacheItem(NilPtr, e) : e \in SessionErrors}

\* What item.Config.Credentials.Get() returns as its error.
CredentialOutcomes == {Nil} \cup CredentialErrors

\* Maps (Go map[string]...) as functions with a growing domain.
EmptyMap == <<>>

Has(m, k) == k \in DOMAIN m

Put(m, k, v) == [x \in DOMAIN m \cup {k} |-> IF x = k THEN v ELSE m[x]]

Count(m, k) == IF k \in DOMAIN m THEN m[k] ELSE 0

Incr(m, k) == Put(m, k, Count(m, k) + 1)

\* ------------------------------------------------------------------------
\* State.
\* ------------------------------------------------------------------------
VARIABLES
  \* AWSClient
  sessions,       \* map region -> CacheItem[*session.Session]
  services,       \* map region -> CacheItem[*secretsmanager.SecretsManager]
  secrets,        \* map identifier -> CacheItem[string]
  sessionsMutex,  \* the holder of each sync.Mutex, or Unlocked
  servicesMutex,
  secretsMutex,
  defaultRegion,  \* client.defaultRegion
  \* goroutines
  th,             \* per goroutine: position and locals of its GetSecret call
  panicked,       \* a goroutine panicked: the process is gone
  \* processTemplateFile
  input,          \* the lines of the input file
  environ,        \* the process environment
  created,        \* os.Create succeeded: the output file exists
  lineNo,         \* the number of the line scanner.Scan() yields next
  processedLine,  \* the line after the environment pass
  repl,           \* the replacements returned so far in the secret pass
  failed,         \* the failure counter
  writerBuf,      \* bytes buffered in the bufio.Writer
  outputFile,     \* bytes written to the output file
  result,         \* what processTemplateFile returned, once it has
  \* history, for the properties only
  sessionCalls,   \* region -> calls of session.NewSessionWithOptions
  credCalls,      \* region -> calls of Credentials.Get
  fetchCalls,     \* identifier -> calls of GetSecretValue
  firstRet,       \* valid identifier -> what GetSecret first returned for it
  emitted,        \* the lines handed to fmt.Fprintln, in order
  envLookups,     \* calls of os.Getenv
  keptCount       \* secret placeholders the secret pass returned unchanged

tables == <<sessions, services, secrets>>

mutexes == <<sessionsMutex, servicesMutex, secretsMutex>>

providerCalls == <<sessionCalls, credCalls, fetchCalls>>

engineVars ==
  <<input, environ, created, lineNo, processedLine, repl, failed, writerBuf,
    outputFile, result, emitted, envLookups, keptCount>>

vars ==
  <<sessions, services, secrets, sessionsMutex, servicesMutex, secretsMutex,
    defaultRegion, th, panicked, input, environ, created, lineNo,
    processedLine, repl, failed, writerBuf, outputFile, result, sessionCalls,
    credCalls, fetchCalls, firstRet, emitted, envLookups, keptCount>>

Unlocked == "unlocked"

\* A goroutine outside GetSecret.
IdleThread ==
  [pc |-> "idle", identifier |-> <<>>, region |-> <<>>,
   session |-> CacheItem(NilPtr, Nil), ret |-> CacheItem(<<>>, Nil),
   calls |-> 0, prior |-> <<>>, ncalls |-> 0]

\* NewAWSClient(profile, defaultRegion): three empty tables.
NewAWSClient(region) ==
  /\ sessions = EmptyMap
  /\ services = EmptyMap
  /\ secrets = EmptyMap
  /\ sessionsMutex = Unlocked
  /\ servicesMutex = Unlocked
  /\ secretsMutex = Unlocked
  /\ defaultRegion = region
  /\ panicked = FALSE
  /\ sessionCalls = EmptyMap
  /\ credCalls = EmptyMap
  /\ fetchCalls = EmptyMap
  /\ firstRet = EmptyMap

\* ------------------------------------------------------------------------
\* awsclient: GetSecret, getService, getSession.
\* One action per stretch of code between two points where the goroutine
\* can block: a mutex acquisition or a call of the provider.
\* ------------------------------------------------------------------------
\* The goroutine enters GetSecret(identifier).
BeginCall(rec, identifier) ==
  [rec EXCEPT !.pc = "GetSecret", !.identifier = identifier, !.calls = 0,
              !.prior = IF Has(firstRet, identifier)
                          THEN <<firstRet[identifier]>> ELSE <<>>]

\* GetSecret returns item to the goroutine.
EndCall(rec, item) == [rec EXCEPT !.pc = "returned", !.ret = item]

NoteReturn(identifier, item) ==
  IF Has(firstRet, identifier) THEN firstRet
  ELSE Put(firstRet, identifier, item)

\* GetSecret, lines 150-152: an invalid identifier is rejected at once.
invalidIdentifierError(identifier) ==
  CacheItem(<<>>, Err("InvalidIdentifier", identifier, Nil))

\* A mutant of GetSecret_validate: the rejection is stored in the secret
\* table, like every other error of GetSecret.
GetSecret_validate_cachesRejection(t) ==
  /\ ~panicked
  /\ th[t].pc = "GetSecret"
  /\ IF ~isValidSecretIdentifier(th[t].identifier)
       THEN /\ th' = [th EXCEPT
                       ![t] = EndCall(@, invalidIdentifierError(@.identifier))]
            /\ secrets' = Put(secrets, th[t].identifier,
                              invalidIdentifierError(th[t].identifier))
       ELSE /\ th' = [th EXCEPT ![t].pc = "secretsLock"]
            /\ UNCHANGED secrets
  /\ UNCHANGED <<sessions, services, mutexes, defaultRegion, panicked,
                 engineVars, providerCalls, firstRet>>

GetSecret_validate(t) ==
  /\ ~panicked
  /\ th[t].pc = "GetSecret"
  /\ IF ~isValidSecretIdentifier(th[t].identifier)
       THEN th' = [th EXCEPT
                    ![t] = EndCall(@, invalidIdentifierError(@.identifier))]
       ELSE th' = [th EXCEPT ![t].pc = "secretsLock"]
  /\ UNCHANGED <<tables, mutexes, defaultRegion, panicked, engineVars,
                 providerCalls, firstRet>>

\* A mutant of serviceItem: a service handle is made of the session item
\* whether or not the session item carries an error.
serviceItem_ignoresError(sess) == CacheItem(ServiceFor(sess.item), Nil)

\* getService, lines 112-122: the service item built from what getSession
\* returned.
serviceItem(sess) ==
  IF sess.err # Nil
    THEN CacheItem(NilPtr, Err("ServiceError", <<>>, sess.err))
    ELSE CacheItem(ServiceFor(sess.item), Nil)

\* GetSecret, lines 168-169: the secret item when getService failed.
secretItemNoService(err) == CacheItem(<<>>, Err("SecretError", <<>>, err))

\* GetSecret, lines 176-184: the secret item built from what GetSecretValue
\* returned.
secretItem(identifier, fetched) ==
  IF fetched.hasText
    THEN CacheItem(fetched.text, Nil)
    ELSE IF fetched.err = Nil
           THEN CacheItem(<<>>, Err("SecretNotText", identifier, Nil))
           ELSE CacheItem(<<>>, Err("SecretFetchError", identifier, fetched.err))

\* A mutant of cached: only successes count as cached, errors are retried.
cached_successOnly(table, key) == Has(table, key) /\ table[key].err = Nil

\* "if cacheItem, exists := table[key]; exists" of the three functions.
cached(table, key) == Has(table, key)

\* A mutant of store: only successes are stored, a failed item is dropped.
store_successOnly(table, key, item) ==
  IF item.err # Nil THEN table ELSE Put(table, key, item)

\* "client.<table>[key] = cacheItem" of the three functions.
\* A mutant of store: the table keeps the latest entry only.
store_singleSlot(table, key, item) == Put(EmptyMap, key, item)

store(table, key, item) == Put(table, key, item)

\* GetSecret after getService returned svc (lines 168-171, 187-188): a
\* failure is stored and returned, otherwise GetSecretValue is called next.
\* rec is the goroutine's record as the calling step leaves it.
AfterGetService(t, rec, svc) ==
  IF svc.err # Nil
    THEN /\ secrets' = store(secrets, rec.identifier,
                          secretItemNoService(svc.err))
         /\ secretsMutex' = Unlocked
         /\ th' = [th EXCEPT ![t] = EndCall(rec, secretItemNoService(svc.err))]
         /\ firstRet' = NoteReturn(rec.identifier, secretItemNoService(svc.err))
    ELSE /\ th' = [th EXCEPT ![t] = [rec EXCEPT !.pc = "getSecretValue"]]
         /\ UNCHANGED <<secrets, secretsMutex, firstRet>>

\* getService after getSession returned sess (lines 117-125), then GetSecret.
AfterGetSession(t, rec, sess) ==
  /\ services' = store(services, rec.region, serviceItem(sess))
  /\ servicesMutex' = Unlocked
  /\ AfterGetService(t, rec, serviceItem(sess))

\* GetSecret, lines 154-166: takes the secret table's lock; a cached item is
\* returned, otherwise the region is selected and getService is called.
GetSecret_lock(t) ==
  /\ ~panicked
  /\ th[t].pc = "secretsLock"
  /\ secretsMutex = Unlocked
  /\ IF cached(secrets, th[t].identifier)
       THEN /\ th' = [th EXCEPT ![t] = EndCall(@, secrets[@.identifier])]
            /\ firstRet' = NoteReturn(th[t].identifier,
                                      secrets[th[t].identifier])
            /\ UNCHANGED secretsMutex
       ELSE /\ th' = [th EXCEPT
                       ![t].pc = "servicesLock",
                       ![t].region =
                         getRegionFromIdentifier(th[t].identifier, defaultRegion)]
            /\ secretsMutex' = t
            /\ UNCHANGED firstRet
  /\ UNCHANGED <<tables, sessionsMutex, servicesMutex, defaultRegion, panicked,
                 engineVars, providerCalls>>

\* getService, lines 105-117: takes the service table's lock; a cached item
\* is returned to GetSecret, otherwise getSession is called.
getService_lock(t) ==
  /\ ~panicked
  /\ th[t].pc = "servicesLock"
  /\ servicesMutex = Unlocked
  /\ IF cached(services, th[t].region)
       THEN /\ AfterGetService(t, th[t], services[th[t].region])
            /\ UNCHANGED servicesMutex
       ELSE /\ th' = [th EXCEPT ![t].pc = "sessionsLock"]
            /\ servicesMutex' = t
            /\ UNCHANGED <<secrets, secretsMutex, firstRet>>
  /\ UNCHANGED <<sessions, services, sessionsMutex, defaultRegion, panicked,
                 engineVars, providerCalls>>

\* getSession, lines 60-80: takes the session table's lock; a cached item is
\* returned to getService, otherwise a session is established.
getSession_lock(t) ==
  /\ ~panicked
  /\ th[t].pc = "sessionsLock"
  /\ sessionsMutex = Unlocked
  /\ IF cached(sessions, th[t].region)
       THEN /\ AfterGetSession(t, th[t], sessions[th[t].region])
            /\ UNCHANGED sessionsMutex
       ELSE /\ th' = [th EXCEPT ![t].pc = "newSession"]
            /\ sessionsMutex' = t
            /\ UNCHANGED <<services, servicesMutex, secrets, secretsMutex,
                           firstRet>>
  /\ UNCHANGED <<sessions, defaultRegion, panicked, engineVars, providerCalls>>

\* getSession, lines 82-93: session.NewSessionWithOptions returns.  With a
\* session the credentials are checked next.  With (nil, err) the error is
\* wrapped and line 93 then reads item.Config of the nil session: the
\* goroutine panics, the deferred Unlock calls run and the process ends.
getSession_new(t) ==
  /\ ~panicked
  /\ th[t].pc = "newSession"
  /\ \E made \in SessionOutcomes(th[t].region) :
       /\ sessionCalls' = Incr(sessionCalls, th[t].region)
       /\ IF made.item = NilPtr
            THEN /\ panicked' = TRUE
                 /\ th' = [th EXCEPT
                            ![t].pc = "panic", ![t].calls = @ + 1,
                            ![t].session =
                              CacheItem(made.item,
                                        Err("SessionError", th[t].region,
                                            made.err))]
                 /\ sessionsMutex' = Unlocked
                 /\ servicesMutex' = Unlocked
                 /\ secretsMutex' = Unlocked
            ELSE /\ th' = [th EXCEPT
                            ![t].pc = "credentials", ![t].calls = @ + 1,
                            ![t].session = made]
                 /\ UNCHANGED <<panicked, mutexes>>
  /\ UNCHANGED <<tables, defaultRegion, engineVars, credCalls, fetchCalls,
                 firstRet>>

\* getSession, lines 93-98: item.Config.Credentials.Get() returns; the item
\* is stored with the credential error, if any, and returned to getService.
getSession_credentials(t) ==
  /\ ~panicked
  /\ th[t].pc = "credentials"
  /\ \E err \in CredentialOutcomes :
       LET item == IF err = Nil THEN th[t].session
                   ELSE CacheItem(th[t].session.item,
                                  Err("CredentialsError", Profile, err))
           rec  == [th[t] EXCEPT !.calls = @ + 1, !.session = item]
       IN /\ credCalls' = Incr(credCalls, th[t].region)
          /\ sessions' = store(sessions, th[t].region, item)
          /\ sessionsMutex' = Unlocked
          /\ AfterGetSession(t, rec, item)
  /\ UNCHANGED <<defaultRegion, panicked, engineVars, sessionCalls, fetchCalls>>

\* GetSecret, lines 171-188: service.GetSecretValue returns; the item built
\* from its result is stored and returned.
GetSecret_fetch(t) ==
  /\ ~panicked
  /\ th[t].pc = "getSecretValue"
  /\ \E fetched \in FetchOutcomes :
       LET item == secretItem(th[t].identifier, fetched)
       IN /\ fetchCalls' = Incr(fetchCalls, th[t].identifier)
          /\ secrets' = store(secrets, th[t].identifier, item)
          /\ secretsMutex' = Unlocked
          /\ th' = [th EXCEPT ![t] = EndCall([@ EXCEPT !.calls = @ + 1], item)]
          /\ firstRet' = NoteReturn(th[t].identifier, item)
  /\ UNCHANGED <<sessions, services, sessionsMutex, servicesMutex,
                 defaultRegion, panicked, engineVars, sessionCalls, credCalls>>

\* The steps of a GetSecret call of goroutine t.
GetSecretStep(t) ==
  \/ GetSecret_validate(t)
  \/ GetSecret_lock(t)
  \/ getService_lock(t)
  \/ getSession_lock(t)
  \/ getSession_new(t)
  \/ getSession_credentials(t)
  \/ GetSecret_fetch(t)

\* ------------------------------------------------------------------------
\* Concurrent callers sharing one client.
\* ------------------------------------------------------------------------
Caller_call(t, identifier) ==
  /\ ~panicked
  /\ th[t].pc = "idle"
  /\ th[t].ncalls < MaxCalls
  /\ th' = [th EXCEPT ![t] = BeginCall([@ EXCEPT !.ncalls = @ + 1], identifier)]
  /\ UNCHANGED <<tables, mutexes, defaultRegion, panicked, engineVars,
                 providerCalls, firstRet>>

Caller_return(t) ==
  /\ ~panicked
  /\ th[t].pc = "returned"
  /\ th' = [th EXCEPT ![t].pc = "idle"]
  /\ UNCHANGED <<tables, mutexes, defaultRegion, panicked, engineVars,
                 providerCalls, firstRet>>

\* ------------------------------------------------------------------------
\* main.go: processTemplateFile.
\* ------------------------------------------------------------------------
\* The input lines the files of the model are made of.
LineComment == <<" ", "#", "$", "{", "V", "}", "{", "a", "}">>

LineEnvSet == <<"u", "=", "$", "{", "V", "}">>

LineEnvUnset == <<"p", "=", "$", "{", "U", "}">>

LineSecret == <<"{", "a", "}">>

LineKeys == <<"{", "a", "[", "k", "]", "}", "{", "a", "[", "z", "]", "}">>

LineArn == <<"{", "{">> \o IdArn \o <<"}", "}">>

LineBad == <<"{">> \o IdBad \o <<"}">>

LineShape == <<"$", "W">>

Lines ==
  {LineComment, LineEnvSet, LineEnvUnset, LineSecret, LineKeys, LineArn,
   LineBad, LineShape}

\* The input files: every sequence of at most MaxLines of these lines.
Files == UNION {[1..n -> Lines] : n \in 0..MaxLines}

\* The process environments: W is set to a text of the shape of a secret
\* placeholder, V is set to a text or to the empty text, every other
\* variable is unset.
EnvV == <<"V">>

EnvW == <<"W">>

Environs ==
  {[n \in {EnvV, EnvW} |-> IF n = EnvV THEN v ELSE <<"{", "a", "}">>] :
     v \in {<<"h", "i">>, <<>>}}

\* os.Getenv: the value of the variable, "" when it is unset.
Getenv(name) == IF Has(environ, name) THEN environ[name] ELSE <<>>

\* What processTemplateFile returns: its kind and, for unresolved items, the
\* count named in the message.
Outcome(kind, count) == [kind |-> kind, count |-> count]

Running == Outcome("running", 0)

\* bufio.NewWriter(outputFile): the default buffer size of package bufio.
WriterBufSize == 4096

\* bufio.Writer.Write(p): p is copied into the buffer; when it does not fit,
\* an empty buffer is bypassed (p goes to the file), a filled buffer is
\* topped up and flushed and the rest of p is written the same way.
RECURSIVE bufioWrite(_, _, _)
bufioWrite(buf, file, p) ==
  IF Len(p) > WriterBufSize - Len(buf)
    THEN IF buf = <<>>
           THEN [buf |-> <<>>, file |-> file \o p]
           ELSE LET n == WriterBufSize - Len(buf)
                IN bufioWrite(<<>>, file \o buf \o SubSeq(p, 1, n),
                              SubSeq(p, n + 1, Len(p)))
    ELSE [buf |-> buf \o p, file |-> file]

\* fmt.Fprintln(writer, line)
Fprintln(line) ==
  LET w == bufioWrite(writerBuf, outputFile, line \o <<"\n">>)
  IN /\ writerBuf' = w.buf
     /\ outputFile' = w.file
     /\ emitted' = Append(emitted, line)

\* ReplaceAllStringFunc: the text s with each match ms[k] replaced by rs[k],
\* from match k on, the text before position pos being done.
RECURSIVE Splice(_, _, _, _, _)
Splice(s, ms, rs, k, pos) ==
  IF k > Len(ms) THEN SubSeq(s, pos, Len(s))
  ELSE SubSeq(s, pos, ms[k].start - 1) \o rs[k]
         \o Splice(s, ms, rs, k + 1, ms[k].end)

\* A mutant of envReplacement: an unset variable is replaced by its (empty)
\* value instead of being kept.
envReplacement_dropsUnset(s, m) == Getenv(m.name)

\* Lines 64-71, the replacement function of the environment pass.
envReplacement(s, m) ==
  IF Getenv(m.name) # <<>> THEN Getenv(m.name) ELSE MatchText(s, m)

\* Lines 64-71, the environment pass over a line.
\* A mutant of envPass: the secret pass is given the line as it was read.
envPass_skipped(line) == line

envPass(line) ==
  LET ms == envVarFindAll(line, 1)
  IN Splice(line, ms, [k \in 1..Len(ms) |-> envReplacement(line, ms[k])], 1, 1)

\* encoding/json: Unmarshal of a text into a map[string]string, for the
\* texts of the grammar  { "key":"value" , ... }  without white space and
\* without escapes; every other text is refused.  (encoding/json also
\* accepts white space, escapes and null; no payload of the model has them.)
JsonFail == [ok |-> FALSE, map |-> EmptyMap]

\* The position of the quote that closes the string opened at position i,
\* 0 when the string is not closed.
jsonStringEnd(s, i) ==
  LET stops == {j \in (i + 1)..Len(s) : s[j] \in {"\"", "\\"}}
  IN IF At(s, i) # "\"" \/ stops = {} THEN 0
     ELSE LET e == CHOOSE j \in stops : \A k \in stops : j <= k
          IN IF s[e] = "\"" THEN e ELSE 0

RECURSIVE jsonMembers(_, _, _)
jsonMembers(s, i, acc) ==
  LET ke == jsonStringEnd(s, i)
      ve == jsonStringEnd(s, ke + 2)
      m  == Put(acc, SubSeq(s, i + 1, ke - 1), SubSeq(s, ke + 3, ve - 1))
  IN IF ke = 0 \/ At(s, ke + 1) # ":" \/ ve = 0 THEN JsonFail
     ELSE IF At(s, ve + 1) = "," THEN jsonMembers(s, ve + 2, m)
     ELSE IF At(s, ve + 1) = "}" /\ ve + 1 = Len(s) THEN [ok |-> TRUE, map |-> m]
     ELSE JsonFail

jsonUnmarshal(s) ==
  IF At(s, 1) # "{" THEN JsonFail
  ELSE IF At(s, 2) = "}" /\ Len(s) = 2 THEN [ok |-> TRUE, map |-> EmptyMap]
  ELSE jsonMembers(s, 2, EmptyMap)

\* Lines 75-101, the replacement function of the secret pass, given what
\* GetSecret(matches[1]) returned: the replacement text and what it adds to
\* the failure counter; kept tells that the placeholder is returned as it
\* was (line 100).
secretReplacement(s, m, ret) ==
  IF ret.err # Nil THEN [text |-> MatchText(s, m), failed |-> 1, kept |-> TRUE]
  ELSE IF ret.item # <<>>
    THEN IF m.key = <<>>
           THEN [text |-> ret.item, failed |-> 0, kept |-> FALSE]
         ELSE LET parsed == jsonUnmarshal(ret.item)
              IN IF parsed.ok
                   THEN IF Has(parsed.map, m.key)
                          THEN [text |-> parsed.map[m.key], failed |-> 0,
                                kept |-> FALSE]
                          ELSE [text |-> MatchText(s, m), failed |-> 1,
                                kept |-> TRUE]
                   ELSE [text |-> MatchText(s, m), failed |-> 1, kept |-> TRUE]
  ELSE [text |-> MatchText(s, m), failed |-> 0, kept |-> TRUE]

\* Lines 30-48: the input is opened, the output created, the client built.
Engine_open ==
  /\ ~panicked
  /\ th[Main].pc = "start"
  /\ \E io \in {"ok", "inputNotFound", "openError", "createError"} :
       IF io = "ok"
         THEN /\ created' = TRUE
              /\ th' = [th EXCEPT ![Main].pc = "scan"]
              /\ UNCHANGED result
         ELSE /\ created' = FALSE
              /\ th' = [th EXCEPT ![Main].pc = "exit"]
              /\ result' = Outcome(io, 0)
  /\ UNCHANGED <<tables, mutexes, defaultRegion, panicked, input, environ,
                 lineNo, processedLine, repl, failed, writerBuf, outputFile,
                 emitted, envLookups, keptCount, providerCalls, firstRet>>

\* Lines 51-77 and 103: the next line is read.  A comment line is written
\* as it is.  Any other line goes through the environment pass; without a
\* secret placeholder it is written, otherwise the secret pass calls
\* GetSecret for the first one.
Engine_scan ==
  /\ ~panicked
  /\ th[Main].pc = "scan"
  /\ lineNo <= Len(input)
  /\ LET line == input[lineNo]
         pl   == envPass(line)
         ms   == placeholderFindAll(pl, 1)
     IN IF commentRegex(line)
          THEN /\ Fprintln(line)
               /\ lineNo' = lineNo + 1
               /\ UNCHANGED <<th, processedLine, repl, envLookups>>
          ELSE /\ envLookups' = envLookups + Len(envVarFindAll(line, 1))
               /\ processedLine' = pl
               /\ repl' = <<>>
               /\ IF ms = <<>>
                    THEN /\ Fprintln(pl)
                         /\ lineNo' = lineNo + 1
                         /\ UNCHANGED th
                    ELSE /\ th' = [th EXCEPT ![Main] = BeginCall(@, ms[1].name)]
                         /\ UNCHANGED <<lineNo, writerBuf, outputFile, emitted>>
  /\ UNCHANGED <<tables, mutexes, defaultRegion, panicked, input, environ,
                 created, failed, result, keptCount, providerCalls, firstRet>>

\* A mutant of Engine_replace: a sub-key projection that fails is recorded
\* in the secret table as the error of its identifier.
Engine_replace_cachesFailure ==
  /\ ~panicked
  /\ th[Main].pc = "returned"
  /\ LET ms == placeholderFindAll(processedLine, 1)
         k  == Len(repl) + 1
         r  == secretReplacement(processedLine, ms[k], th[Main].ret)
         rs == Append(repl, r.text)
     IN /\ failed' = failed + r.failed
        /\ keptCount' = keptCount + (IF r.kept THEN 1 ELSE 0)
        /\ repl' = rs
        /\ secrets' =
             IF th[Main].ret.err = Nil /\ r.failed = 1
               THEN Put(secrets, th[Main].identifier,
                        CacheItem(<<>>, Err("SubKey", th[Main].identifier, Nil)))
               ELSE secrets
        /\ IF k < Len(ms)
             THEN /\ th' = [th EXCEPT ![Main] = BeginCall(@, ms[k + 1].name)]
                  /\ UNCHANGED <<lineNo, writerBuf, outputFile, emitted>>
             ELSE /\ Fprintln(Splice(processedLine, ms, rs, 1, 1))
                  /\ lineNo' = lineNo + 1
                  /\ th' = [th EXCEPT ![Main].pc = "scan"]
  /\ UNCHANGED <<sessions, services, mutexes, defaultRegion, panicked, input,
                 environ, created, processedLine, result, envLookups,
                 providerCalls, firstRet>>

\* A mutant of Engine_replace: an error answered from the secret table, the
\* identifier having failed before, is not counted again.
Engine_replace_countsFirstError ==
  /\ ~panicked
  /\ th[Main].pc = "returned"
  /\ LET ms == placeholderFindAll(processedLine, 1)
         k  == Len(repl) + 1
         r  == secretReplacement(processedLine, ms[k], th[Main].ret)
         rs == Append(repl, r.text)
     IN /\ failed' = IF th[Main].ret.err # Nil /\ th[Main].prior # <<>>
                       THEN failed
                       ELSE failed + r.failed
        /\ keptCount' = keptCount + (IF r.kept THEN 1 ELSE 0)
        /\ repl' = rs
        /\ IF k < Len(ms)
             THEN /\ th' = [th EXCEPT ![Main] = BeginCall(@, ms[k + 1].name)]
                  /\ UNCHANGED <<lineNo, writerBuf, outputFile, emitted>>
             ELSE /\ Fprintln(Splice(processedLine, ms, rs, 1, 1))
                  /\ lineNo' = lineNo + 1
                  /\ th' = [th EXCEPT ![Main].pc = "scan"]
  /\ UNCHANGED <<tables, mutexes, defaultRegion, panicked, input, environ,
                 created, processedLine, result, envLookups, providerCalls,
                 firstRet>>

\* Lines 77-103: GetSecret returned; the replacement function finishes, and
\* either the next placeholder of the line is resolved or the line is
\* written.
Engine_replace ==
  /\ ~panicked
  /\ th[Main].pc = "returned"
  /\ LET ms == placeholderFindAll(processedLine, 1)
         k  == Len(repl) + 1
         r  == secretReplacement(processedLine, ms[k], th[Main].ret)
         rs == Append(repl, r.text)
     IN /\ failed' = failed + r.failed
        /\ keptCount' = keptCount + (IF r.kept THEN 1 ELSE 0)
        /\ repl' = rs
        /\ IF k < Len(ms)
             THEN /\ th' = [th EXCEPT ![Main] = BeginCall(@, ms[k + 1].name)]
                  /\ UNCHANGED <<lineNo, writerBuf, outputFile, emitted>>
             ELSE /\ Fprintln(Splice(processedLine, ms, rs, 1, 1))
                  /\ lineNo' = lineNo + 1
                  /\ th' = [th EXCEPT ![Main].pc = "scan"]
  /\ UNCHANGED <<tables, mutexes, defaultRegion, panicked, input, environ,
                 created, processedLine, result, envLookups, providerCalls,
                 firstRet>>

\* Lines 106-118: end of file.  With failures the function returns at line
\* 107, before writer.Flush(); otherwise the buffer is flushed to the file.
\* (Errors of Flush and of the scanner are left out: file mechanics.)
Engine_eof ==
  /\ ~panicked
  /\ th[Main].pc = "scan"
  /\ lineNo > Len(input)
  /\ IF failed > 0
       THEN /\ result' = Outcome("unresolved", failed)
            /\ UNCHANGED <<writerBuf, outputFile>>
       ELSE /\ result' = Outcome("ok", 0)
            /\ outputFile' = outputFile \o writerBuf
            /\ writerBuf' = <<>>
  /\ th' = [th EXCEPT ![Main].pc = "exit"]
  /\ UNCHANGED <<tables, mutexes, defaultRegion, panicked, input, environ,
                 created, lineNo, processedLine, repl, failed, emitted,
                 envLookups, keptCount, providerCalls, firstRet>>

Init ==
  /\ \E region \in DefaultRegions : NewAWSClient(region)
  /\ th = [t \in Threads |->
             IF t = Main THEN [IdleThread EXCEPT !.pc = "start"] ELSE IdleThread]
  /\ input \in Files
  /\ environ \in Environs
  /\ created = FALSE
  /\ lineNo = 1
  /\ processedLine = <<>>
  /\ repl = <<>>
  /\ failed = 0
  /\ writerBuf = <<>>
  /\ outputFile = <<>>
  /\ result = Running
  /\ emitted = <<>>
  /\ envLookups = 0
  /\ keptCount = 0

Next ==
  \/ Engine_open
  \/ Engine_scan
  \/ GetSecretStep(Main)
  \/ Engine_replace
  \/ Engine_eof

Spec == Init /\ [][Next]_vars

\* Concurrent callers on one shared client, without processTemplateFile.
InitShared ==
  /\ \E region \in DefaultRegions : NewAWSClient(region)
  /\ th = [t \in Threads |-> IdleThread]
  /\ input = <<>>
  /\ environ = EmptyMap
  /\ created = FALSE
  /\ lineNo = 1
  /\ processedLine = <<>>
  /\ repl = <<>>
  /\ failed = 0
  /\ writerBuf = <<>>
  /\ outputFile = <<>>
  /\ result = Running
  /\ emitted = <<>>
  /\ envLookups = 0
  /\ keptCount = 0

NextShared ==
  \E t \in Callers :
    \/ \E identifier \in CallerIds : Caller_call(t, identifier)
    \/ GetSecretStep(t)
    \/ Caller_return(t)

SpecShared == InitShared /\ [][NextShared]_vars

\* The classifier alone: caller c1 has entered GetSecret with an identifier
\* of Identifiers, and the validation of lines 150-152 runs.
InitClassifier ==
  /\ NewAWSClient(<<>>)
  /\ \E identifier \in Identifiers :
       th = [t \in Threads |->
               IF t = "c1" THEN BeginCall(IdleThread, identifier)
               ELSE IdleThread]
  /\ input = <<>>
  /\ environ = EmptyMap
  /\ created = FALSE
  /\ lineNo = 1
  /\ processedLine = <<>>
  /\ repl = <<>>
  /\ failed = 0
  /\ writerBuf = <<>>
  /\ outputFile = <<>>
  /\ result = Running
  /\ emitted = <<>>
  /\ envLookups = 0
  /\ keptCount = 0

NextClassifier == GetSecret_validate("c1")

SpecClassifier == InitClassifier /\ [][NextClassifier]_vars

\* ------------------------------------------------------------------------
\* Properties.
\* ------------------------------------------------------------------------
\* The region a valid identifier is resolved against.
RegionOf(identifier) == getRegionFromIdentifier(identifier, defaultRegion)

\* A goroutine is inside getSession for region r, past the cache lookup.
Establishing(r) ==
  \E t \in Threads :
    th[t].pc \in {"newSession", "credentials"} /\ th[t].region = r

\* C1: at-most-once fetch.  In every reachable state, under any interleaving
\* of the callers, GetSecretValue has been called at most once for each
\* identifier, however often GetSecret was called for it.
C1_AtMostOnceFetch == \A id \in DOMAIN fetchCalls : fetchCalls[id] <= 1

\* A GetSecret call for an identifier that was returned before has itself
\* returned, without any provider call, and the identifier was fetched once.
C1_Witness ==
  \E t \in Threads :
    /\ th[t].pc = "returned"
    /\ th[t].prior # <<>>
    /\ th[t].calls = 0
    /\ Count(fetchCalls, th[t].identifier) = 1

\* C2: no retry on failure.  When GetSecret(i) has returned an error for a
\* valid identifier i, every GetSecret(i) called afterwards returns that
\* same error and makes no provider call (no session, no credential check,
\* no fetch).
C2_NoRetryOnFailure ==
  \A t \in Threads :
    (/\ th[t].pc = "returned"
     /\ isValidSecretIdentifier(th[t].identifier)
     /\ th[t].prior # <<>>
     /\ th[t].prior[1].err # Nil)
      => (th[t].ret = th[t].prior[1] /\ th[t].calls = 0)

\* A later call for an identifier whose fetch failed has returned.
C2_Witness ==
  \E t \in Threads :
    /\ th[t].pc = "returned"
    /\ th[t].prior # <<>>
    /\ th[t].prior[1].err # Nil
    /\ th[t].prior[1].err.kind = "SecretFetchError"
    /\ th[t].ret = th[t].prior[1]

\* C5: non-empty success.  GetSecret never returns, and never caches, the
\* pair (empty text, no error).
C5_NonEmptySuccess ==
  /\ \A t \in Threads :
       th[t].pc = "returned" => ~(th[t].ret.err = Nil /\ th[t].ret.item = <<>>)
  /\ \A id \in DOMAIN secrets :
       ~(secrets[id].err = Nil /\ secrets[id].item = <<>>)

\* C6: failures are values, never faults.  No outcome of the provider makes
\* getSession, getService or GetSecret panic.
C6_NeverPanics == ~panicked /\ \A t \in Threads : th[t].pc # "panic"

\* C7: broken sessions are tried once and never used.  For each region the
\* session is established, and its credentials checked, at most once; an
\* attempt that is over has left its outcome in the session table; and when
\* that outcome is a failure no service handle exists for the region, no
\* identifier of the region was fetched and every such identifier failed.
C7_BrokenSessionsTriedOnce ==
  \A r \in DOMAIN sessionCalls :
    /\ sessionCalls[r] <= 1
    /\ Count(credCalls, r) <= 1
    /\ ~Establishing(r) => Has(sessions, r)
    /\ (Has(sessions, r) /\ sessions[r].err # Nil) =>
         /\ Has(services, r) =>
              (services[r].item = NilPtr /\ services[r].err # Nil)
         /\ \A id \in DOMAIN fetchCalls : RegionOf(id) # r
         /\ \A id \in DOMAIN secrets : RegionOf(id) = r => secrets[id].err # Nil

\* C8: invalid identifiers touch nothing.  The step GetSecret takes for an
\* invalid identifier returns the InvalidIdentifier error and leaves the
\* three tables, the three mutexes and the provider untouched, on every
\* call; no invalid identifier is ever a key of the secret table, and no
\* goroutine ever waits for or holds a lock on behalf of one.
C8_InvalidTouchesNothing ==
  [][\A t \in Threads :
       (/\ th[t].pc = "GetSecret"
        /\ ~isValidSecretIdentifier(th[t].identifier)
        /\ th'[t] # th[t])
         => /\ th'[t].pc = "returned"
            /\ th'[t].ret.err.kind = "InvalidIdentifier"
            /\ th'[t].ret.item = <<>>
            /\ \A id \in DOMAIN secrets' : isValidSecretIdentifier(id)
            /\ UNCHANGED <<tables, mutexes, providerCalls>>]_vars

\* A second call with the same invalid identifier has been rejected again.
C8_Witness ==
  \E t \in Threads :
    /\ th[t].pc = "returned"
    /\ th[t].identifier = IdBad
    /\ th[t].ncalls = 2
    /\ th[t].ret.err.kind = "InvalidIdentifier"
    /\ ~Has(secrets, IdBad)

\* A line that, after leading white space, starts with '#', '/' or '*'.
IsCommentLine(line) ==
  \E k \in 1..Len(line) :
    /\ line[k] \in {"#", "/", "*"}
    /\ \A j \in 1..(k - 1) : line[j] \in {" ", "\t"}

\* The lines written so far, as the bytes they make in the output.
RECURSIVE FlattenLines(_)
FlattenLines(ls) ==
  IF ls = <<>> THEN <<>> ELSE Head(ls) \o <<"\n">> \o FlattenLines(Tail(ls))

\* C3: complete output on partial failure.  When processTemplateFile has
\* returned after creating the output, the output file holds one line per
\* input line, in order: the lines handed to the writer.
C3_CompleteOutput ==
  (th[Main].pc = "exit" /\ created)
    => (Len(emitted) = Len(input) /\ outputFile = FlattenLines(emitted))

\* C4: any unresolved placeholder fails the pass.  Every secret placeholder
\* the secret pass returns unchanged is counted as a failure, and the pass
\* returns success exactly when none was, the failure naming the count.
C4_UnresolvedFailsPass ==
  /\ keptCount <= failed
  /\ (th[Main].pc = "exit" /\ created) =>
       result = IF keptCount > 0 THEN Outcome("unresolved", failed)
                ELSE Outcome("ok", 0)

\* C9: comment passthrough.  The step that reads a comment line hands it to
\* the writer unchanged and does nothing else: no environment lookup, no
\* GetSecret call, no change of the tables or of the failure counter.
C9_CommentPassthrough ==
  [][(/\ th[Main].pc = "scan"
      /\ lineNo <= Len(input)
      /\ IsCommentLine(input[lineNo]))
       => /\ emitted' = Append(emitted, input[lineNo])
          /\ outputFile' \o writerBuf'
               = outputFile \o writerBuf \o input[lineNo] \o <<"\n">>
          /\ th'[Main].pc = "scan"
          /\ UNCHANGED <<envLookups, failed, keptCount, tables, providerCalls>>]_vars

\* A comment line that holds an environment and a secret placeholder has
\* been written as it is, with no lookup made.
C9_Witness ==
  /\ Len(input) >= 1
  /\ Len(emitted) >= 1
  /\ input[1] = LineComment
  /\ emitted[1] = LineComment
  /\ envLookups = 0
  /\ secrets = EmptyMap

\* The line ends in the placeholder ${name} and holds no other placeholder.
EndsInEnvPlaceholder(line, name) ==
  LET ph == <<"$", "{">> \o name \o <<"}">>
      n  == Len(line) - Len(ph)
  IN /\ n >= 0
     /\ SubSeq(line, n + 1, Len(line)) = ph
     /\ \A j \in 1..n : line[j] \notin {"$", "{", "}"}

BeforePlaceholder(line, name) == SubSeq(line, 1, Len(line) - Len(name) - 3)

\* The names of the environment placeholders of the input lines.
PlaceholderNames == {EnvV, IdU}

\* GetSecret(name) was called and gave a non-empty text.
Resolved(name) ==
  Has(secrets, name) /\ secrets[name].err = Nil /\ secrets[name].item # <<>>

\* C10 as stated: a line with ${VAR} comes out with the value in place of
\* the placeholder when VAR is set to a non-empty value, and identical to
\* the input line when VAR is unset or empty.
C10_EnvPrecedence_asStated ==
  \A k \in 1..Len(emitted) : \A name \in PlaceholderNames :
    (~IsCommentLine(input[k]) /\ EndsInEnvPlaceholder(input[k], name))
      => emitted[k] = IF Getenv(name) # <<>>
                        THEN BeforePlaceholder(input[k], name) \o Getenv(name)
                        ELSE input[k]

\* C10, amended: a line with ${VAR} comes out with the value in place of the
\* placeholder when VAR is set to a non-empty value (one that holds no
\* brace); when VAR is unset or empty the environment pass keeps the
\* placeholder, the secret pass resolves {VAR} as a secret identifier, and
\* the line comes out identical to the input line unless GetSecret(VAR)
\* gave a non-empty text, which then stands in place of {VAR} after the '$'.
C10_EnvPrecedence ==
  \A k \in 1..Len(emitted) : \A name \in PlaceholderNames :
    (/\ ~IsCommentLine(input[k])
     /\ EndsInEnvPlaceholder(input[k], name)
     /\ \A j \in 1..Len(Getenv(name)) : Getenv(name)[j] \notin {"{", "}"})
      => emitted[k] =
           IF Getenv(name) # <<>>
             THEN BeforePlaceholder(input[k], name) \o Getenv(name)
           ELSE IF Resolved(name)
             THEN BeforePlaceholder(input[k], name) \o <<"$">>
                    \o secrets[name].item
           ELSE input[k]

\* A line whose variable is unset has been written with the secret of that
\* name in place of the braces, and a line whose variable is set with the
\* variable's value.
C10_Witness ==
  /\ Len(emitted) = 2
  /\ input = <<LineEnvUnset, LineEnvSet>>
  /\ emitted[1] = <<"p", "=", "$">> \o PayloadPlain
  /\ emitted[2] = <<"u", "=", "h", "i">>


\* ---------------------------------------------------------------------
\* C11  Sub-key projection.  When GetSecret returns a value for X without
\* an error, a placeholder {X[k]} is replaced by the value the JSON object
\* maps k to; when k is absent or the value does not parse as a flat JSON
\* object of strings, the placeholder stays as it is and the failure
\* counter grows by exactly one for that occurrence.
SubKeyStep ==
  /\ th[Main].pc = "returned"
  /\ th[Main].ret.err = Nil
  /\ placeholderFindAll(processedLine, 1)[Len(repl) + 1].key # <<>>

C11_SubKeyProjection ==
  [][SubKeyStep =>
       LET m   == placeholderFindAll(processedLine, 1)[Len(repl) + 1]
           obj == jsonUnmarshal(th[Main].ret.item)
       IN IF obj.ok /\ Has(obj.map, m.key)
            THEN /\ repl' = Append(repl, obj.map[m.key])
                 /\ failed' = failed
            ELSE /\ repl' = Append(repl, MatchText(processedLine, m))
                 /\ failed' = failed + 1]_vars


\* ---------------------------------------------------------------------
\* C12  Validation boundary.  GetSecret's validation rejects the empty
\* identifier and every bare name that ends in a hyphen followed by exactly
\* six alphanumeric characters, and accepts a full secrets-manager ARN
\* whose name part ends in that suffix.
ReservedSuffix(identifier) ==
  /\ Len(identifier) >= 7
  /\ identifier[Len(identifier) - 6] = "-"
  /\ \A k \in (Len(identifier) - 5)..Len(identifier) :
       identifier[k] \in Lower \cup Upper \cup Digit

IsBareName(identifier) ==
  /\ identifier # <<>>
  /\ \A k \in 1..Len(identifier) : identifier[k] # ":"

IsFullArn(identifier) ==
  /\ HasAt(identifier, 1, ArnStem)
  /\ \A k \in (Len(ArnStem) + 1)..Len(identifier) : identifier[k] \in TailChars

Rejected(t) ==
  /\ th[t].pc = "returned"
  /\ th[t].ret = invalidIdentifierError(th[t].identifier)

Accepted(t) == th[t].pc = "secretsLock"

C12_ValidationBoundary ==
  \A t \in Callers :
    th[t].pc \in {"returned", "secretsLock"} =>
      /\ th[t].identifier = <<>> => Rejected(t)
      /\ IsBareName(th[t].identifier) /\ ReservedSuffix(th[t].identifier)
           => Rejected(t)
      /\ IsFullArn(th[t].identifier) /\ ReservedSuffix(th[t].identifier)
           => Accepted(t)

\* An ARN whose name part ends in the reserved suffix has been accepted.
C12_Witness ==
  /\ Accepted("c1")
  /\ IsFullArn(th["c1"].identifier)
  /\ ReservedSuffix(th["c1"].identifier)
  /\ Len(th["c1"].identifier) > Len(ArnStem) + 6


\* ---------------------------------------------------------------------
\* C13  Concurrency of cached lookups.  Caller t is establishing a session
\* for a region that has none yet, and caller u is about to look up an
\* identifier the secret table already holds.
CachedLookupDuringEstablishment(t, u) ==
  /\ t # u
  /\ th[t].pc \in {"newSession", "credentials"}
  /\ ~Has(sessions, th[t].region)
  /\ th[u].pc = "secretsLock"
  /\ cached(secrets, th[u].identifier)

\* C13 as stated: the lookup of an already-cached identifier can complete
\* while another caller is establishing a session for a new region.
C13_CachedLookupProceeds ==
  \A t, u \in Callers :
    CachedLookupDuringEstablishment(t, u) => ENABLED GetSecret_lock(u)


\* ---------------------------------------------------------------------
\* C14  Deadlock freedom under sharing.  Locks are taken in the order
\* secret table, service table, session table; no goroutine waits for a
\* lock it holds; and, the provider calls returning, every GetSecret call
\* returns: while a call is in progress some goroutine can take a step (the
\* calls being finitely many steps long, this is what "eventually returns"
\* comes to).
InCall(t) == th[t].pc \notin {"idle", "returned", "start", "scan", "exit"}

LockOrder ==
  \A t \in Threads :
    /\ servicesMutex = t => secretsMutex = t
    /\ sessionsMutex = t => servicesMutex = t

NoReacquire ==
  \A t \in Threads :
    /\ th[t].pc = "secretsLock" => t \notin {secretsMutex, servicesMutex,
                                            sessionsMutex}
    /\ th[t].pc = "servicesLock" => t \notin {servicesMutex, sessionsMutex}
    /\ th[t].pc = "sessionsLock" => t # sessionsMutex

C14_DeadlockFreedom ==
  /\ LockOrder
  /\ NoReacquire
  /\ (\E t \in Callers : InCall(t)) => \E u \in Callers : ENABLED GetSecretStep(u)


\* ---------------------------------------------------------------------
\* C15  Write-once tables.  No step removes or changes an entry of the
\* session, service or secret table: a key that is present stays present
\* with the same entry, whether it is a value or an error.
KeepsEntries(table, tableNext) ==
  \A key \in DOMAIN table :
    key \in DOMAIN tableNext /\ tableNext[key] = table[key]

C15_WriteOnceTables ==
  [][/\ KeepsEntries(sessions, sessions')
     /\ KeepsEntries(services, services')
     /\ KeepsEntries(secrets, secrets')]_vars

\* Two regions and two identifiers are stored, one of them with an error,
\* and a later call has been answered from the secret table.
C15_Witness ==
  /\ Cardinality(DOMAIN sessions) >= 2
  /\ Cardinality(DOMAIN services) >= 2
  /\ Cardinality(DOMAIN secrets) >= 2
  /\ \E id \in DOMAIN secrets : secrets[id].err # Nil
  /\ \E t \in Callers :
       /\ th[t].pc = "returned"
       /\ th[t].identifier \in DOMAIN secrets
       /\ th[t].prior # <<>>
       /\ th[t].calls = 0


\* ---------------------------------------------------------------------
\* C16  Two-pass ordering.  The secret pass scans what the environment pass
\* produced: a line $NAME whose environment value is {id} comes out as the
\* line {id} does, GetSecret having been called for id.  The value put in
\* by the secret pass is not scanned again: the line {id} comes out as the
\* secret's value exactly, whatever placeholder shapes that value holds.
Braced(id) == <<"{">> \o id \o <<"}">>

SecretPassOutput(id) == IF Resolved(id) THEN secrets[id].item ELSE Braced(id)

C16_TwoPassOrdering ==
  \A k \in 1..Len(emitted) : \A id \in {IdA, IdU} :
    /\ \A name \in DOMAIN environ :
         input[k] = <<"$">> \o name /\ environ[name] = Braced(id) =>
           /\ Has(secrets, id)
           /\ emitted[k] = SecretPassOutput(id)
    /\ input[k] = Braced(id) =>
         /\ Has(secrets, id)
         /\ emitted[k] = SecretPassOutput(id)

\* The environment value {a} was resolved as a secret, and the secret's
\* value ${V}, with V set, was written as it is.
C16_Witness ==
  /\ Len(emitted) >= 1
  /\ input[1] = LineShape
  /\ Getenv(EnvW) = Braced(IdA)
  /\ Getenv(EnvV) # <<>>
  /\ emitted[1] = PayloadShaped


\* ---------------------------------------------------------------------
\* C17  Unset environment placeholder re-examined as a secret.  For a line
\* with ${NAME} that the environment pass left untouched (NAME unset or
\* empty), the secret pass matches the {NAME} part and calls
\* GetSecret(NAME); when the call fails the failure counter grows by one,
\* and when it succeeds the {NAME} part is replaced by the secret's value.
UntouchedEnvPlaceholder(name) ==
  /\ lineNo <= Len(input)
  /\ ~IsCommentLine(input[lineNo])
  /\ EndsInEnvPlaceholder(input[lineNo], name)
  /\ Getenv(name) = <<>>

C17_UnsetEnvAsSecret ==
  [][\A name \in PlaceholderNames :
       UntouchedEnvPlaceholder(name) =>
         /\ th[Main].pc = "scan" =>
              /\ th'[Main].pc = "GetSecret"
              /\ th'[Main].identifier = name
         /\ th[Main].pc = "returned" =>
              IF th[Main].ret.err # Nil
                THEN failed' = failed + 1
                ELSE emitted' =
                       Append(emitted,
                              BeforePlaceholder(input[lineNo], name)
                                \o <<"$">> \o th[Main].ret.item)]_vars


\* ---------------------------------------------------------------------
\* C18  Sub-key failures are not cached.  A projection {X[k]} that fails
\* (the value is not a JSON object, or k is absent) leaves the secret
\* table's entry for X as the success it is; a later {X}, or {X[k2]} with
\* k2 present, in the same pass is answered from that entry without a
\* provider call and is substituted.
C18_SubKeyFailuresNotCached ==
  [][(th[Main].pc = "returned" /\ th[Main].ret.err = Nil) =>
       LET m   == placeholderFindAll(processedLine, 1)[Len(repl) + 1]
           X   == th[Main].identifier
           obj == jsonUnmarshal(th[Main].ret.item)
       IN /\ (m.key # <<>> /\ failed' = failed + 1) =>
               /\ secrets' = secrets
               /\ secrets[X] = th[Main].ret
               /\ secrets[X].item # <<>>
               /\ providerCalls' = providerCalls
          /\ (/\ th[Main].prior # <<>>
              /\ th[Main].prior[1].err = Nil
              /\ th[Main].prior[1].item # <<>>) =>
               /\ th[Main].calls = 0
               /\ fetchCalls[X] = 1
               /\ th[Main].ret = th[Main].prior[1]
               /\ m.key = <<>> => repl' = Append(repl, th[Main].ret.item)
               /\ (m.key # <<>> /\ obj.ok /\ Has(obj.map, m.key)) =>
                    repl' = Append(repl, obj.map[m.key])]_vars

\* After the projection {a[z]} failed, {a[k]} of the next line was
\* substituted from the same entry, with one fetch in all.
C18_Witness ==
  /\ input = <<LineKeys, LineKeys>>
  /\ emitted = <<<<"v">> \o SubSeq(LineKeys, 7, 12),
                 <<"v">> \o SubSeq(LineKeys, 7, 12)>>
  /\ failed = 2
  /\ fetchCalls[IdA] = 1
  /\ secrets[IdA] = CacheItem(PayloadJson, Nil)


\* ---------------------------------------------------------------------
\* C19  Region selection.  On a miss of the secret table, GetSecret works
\* with the region embedded in the identifier when it is an ARN, and with
\* the client's default region otherwise: that region is the key under
\* which the service and session tables are consulted and filled, and the
\* region of the session and of the service handle used for the fetch.
EmbeddedRegion(identifier) ==
  LET p == Len(ArnPrefix) + 1
      e == CHOOSE j \in p..Len(identifier) :
             /\ identifier[j] = ":"
             /\ \A i \in p..(j - 1) : identifier[i] # ":"
  IN SubSeq(identifier, p, e - 1)

ExpectedRegion(identifier) ==
  IF HasAt(identifier, 1, ArnPrefix) THEN EmbeddedRegion(identifier)
  ELSE defaultRegion

\* The identifiers GetSecret has gone past the validation with.
LookedUp ==
  {th[t].identifier : t \in {u \in Threads : InCall(u) /\ th[u].pc # "GetSecret"}}
    \cup DOMAIN secrets

C19_RegionSelection ==
  /\ \A t \in Threads :
       th[t].pc \in {"servicesLock", "sessionsLock", "newSession",
                     "credentials", "getSecretValue"}
         => th[t].region = ExpectedRegion(th[t].identifier)
  /\ \A r \in DOMAIN sessions \cup DOMAIN services
                \cup DOMAIN sessionCalls \cup DOMAIN credCalls :
       \E id \in LookedUp : r = ExpectedRegion(id)
  /\ \A r \in DOMAIN sessions :
       sessions[r].item # NilPtr => sessions[r].item = SessionFor(r)
  /\ \A r \in DOMAIN services :
       services[r].err = Nil => services[r].item = ServiceFor(SessionFor(r))
  /\ \A id \in DOMAIN fetchCalls :
       /\ Has(services, ExpectedRegion(id))
       /\ services[ExpectedRegion(id)].err = Nil

\* With eu-west-1 as the default, a bare name was fetched there and an ARN
\* of us-east-1 is being fetched with the service handle of us-east-1.
C19_Witness ==
  /\ defaultRegion = RegionEuWest
  /\ Has(fetchCalls, IdA)
  /\ services[RegionEuWest].err = Nil
  /\ \E t \in Callers :
       /\ th[t].pc = "getSecretValue"
       /\ th[t].identifier = IdArn
       /\ th[t].region = <<"u", "s", "-", "e", "a", "s", "t", "-", "1">>
       /\ Has(services, th[t].region)
       /\ th[t].region # defaultRegion


\* ---------------------------------------------------------------------
\* C20  Table dependency.  Whenever no GetSecret call is in progress: every
\* region of the service table is in the session table; a service entry is
\* an error exactly when the session entry of its region is one; and the
\* region of every identifier of the secret table is in the service table.
Quiescent == \A t \in Threads : ~InCall(t)

C20_TableDependency ==
  Quiescent =>
    /\ DOMAIN services \subseteq DOMAIN sessions
    /\ \A r \in DOMAIN services :
         services[r].err # Nil <=> sessions[r].err # Nil
    /\ \A id \in DOMAIN secrets : ExpectedRegion(id) \in DOMAIN services

\* Between calls, with a region whose session and service are errors, a
\* region whose session and service are not, and a secret of each.
C20_Witness ==
  /\ Quiescent
  /\ \E r1, r2 \in DOMAIN services :
       /\ services[r1].err # Nil
       /\ sessions[r1].err # Nil
       /\ services[r2].err = Nil
       /\ sessions[r2].err = Nil
  /\ Cardinality(DOMAIN secrets) >= 2


\* ---------------------------------------------------------------------
\* C21  Failure counting is per occurrence.  The failure counter never
\* decreases; every secret placeholder occurrence whose GetSecret call
\* returns an error adds exactly one to it, whether the error was just made
\* or came from the secret table; so at the end of the file the count is
\* the number of occurrences of failing identifiers (plus the projections
\* that failed), while no identifier was fetched more than once.
\* GetSecret(id) gives an error: id was refused, or its entry is an error.
Failing(id) == ~Has(secrets, id) \/ secrets[id].err # Nil

ProjectionFails(m) ==
  /\ ~Failing(m.name)
  /\ m.key # <<>>
  /\ secrets[m.name].item # <<>>
  /\ LET obj == jsonUnmarshal(secrets[m.name].item)
     IN ~(obj.ok /\ Has(obj.map, m.key))

\* The secret placeholder occurrences of input line k.
Occurrences(k) ==
  IF IsCommentLine(input[k]) THEN <<>>
  ELSE placeholderFindAll(envPass(input[k]), 1)

ErrorOccurrences(k) ==
  Cardinality({i \in 1..Len(Occurrences(k)) : Failing(Occurrences(k)[i].name)})

FailedProjections(k) ==
  Cardinality({i \in 1..Len(Occurrences(k)) : ProjectionFails(Occurrences(k)[i])})

RECURSIVE ExpectedFailures(_)
ExpectedFailures(n) ==
  IF n = 0 THEN 0
  ELSE ExpectedFailures(n - 1) + ErrorOccurrences(n) + FailedProjections(n)

C21_FailuresPerOccurrence ==
  [][/\ failed' >= failed
     /\ (th[Main].pc = "returned" /\ th[Main].ret.err # Nil) =>
          failed' = failed + 1
     /\ \A id \in DOMAIN fetchCalls' : fetchCalls'[id] <= 1
     /\ (th[Main].pc = "scan" /\ th'[Main].pc = "exit") =>
          /\ failed = ExpectedFailures(Len(input))
          /\ failed > 0 => result' = Outcome("unresolved", failed)]_vars

\* An identifier whose fetch failed appears twice: the pass ends with the
\* count 2 after one fetch, the second error having come from the table.
C21_Witness ==
  /\ th[Main].pc = "exit"
  /\ input = <<LineSecret, LineSecret>>
  /\ fetchCalls = Put(EmptyMap, IdA, 1)
  /\ secrets[IdA].err # Nil
  /\ result = Outcome("unresolved", 2)

====
